---- MODULE Spec2Model ----
(***************************************************************************)
(* Model of the magneturi package (magneturi.go): the Magnet URI parser,   *)
(* its serializer and the equality of two parsed URIs.                      *)
(*                                                                         *)
(* A Go string is modelled as a sequence of one-character strings, so that *)
(* splitting, prefix tests, number parsing and formatting are computed     *)
(* character by character, the way the standard library computes them.     *)
(***************************************************************************)
EXTENDS Integers, Sequences, FiniteSets, TLC

(***************************************************************************)
(* Bounds of the explored inputs.                                          *)
(***************************************************************************)
\* largest number of '&'-separated fragments in a raw string given to Parse
MaxFragments == 2
\* largest number of parameters of a directly constructed MagnetURI
MaxParams == 2

(***************************************************************************)
(* Package constants.                                                      *)
(***************************************************************************)
magnetURISchemaPrefix == <<"m", "a", "g", "n", "e", "t", ":", "?">>
exactTopicPrefix == <<"x", "t">>
displayNamePrefix == <<"d", "n">>
keywordTopicPrefix == <<"k", "t">>
manifestTopicPrefix == <<"m", "t">>

(***************************************************************************)
(* The parts of the Go standard library the package calls.                 *)
(***************************************************************************)
\* strings.HasPrefix
HasPrefix(str, prefix) ==
    /\ Len(str) >= Len(prefix)
    /\ SubSeq(str, 1, Len(prefix)) = prefix

\* strings.TrimPrefix
TrimPrefix(str, prefix) ==
    IF HasPrefix(str, prefix) THEN SubSeq(str, Len(prefix) + 1, Len(str)) ELSE str

\* strings.Contains, for a one-character separator
Contains(str, sep) == \E i \in 1..Len(str) : str[i] = sep

\* position of the first occurrence of sep in str, 0 when there is none
RECURSIVE IndexFrom(_, _, _)
IndexFrom(str, sep, i) ==
    IF i > Len(str) THEN 0
    ELSE IF str[i] = sep THEN i
    ELSE IndexFrom(str, sep, i + 1)

\* strings.Split, for a one-character separator: the empty string yields
\* one empty piece
RECURSIVE Split(_, _)
Split(str, sep) ==
    LET i == IndexFrom(str, sep, 1)
    IN  IF i = 0 THEN <<str>>
        ELSE <<SubSeq(str, 1, i - 1)>> \o Split(SubSeq(str, i + 1, Len(str)), sep)

\* strings.SplitN(str, sep, 2): at most two pieces, cut at the first sep
SplitN2(str, sep) ==
    LET i == IndexFrom(str, sep, 1)
    IN  IF i = 0 THEN <<str>>
        ELSE <<SubSeq(str, 1, i - 1), SubSeq(str, i + 1, Len(str))>>

\* strings.Join
RECURSIVE Join(_, _)
Join(strs, sep) ==
    IF Len(strs) = 0 THEN <<>>
    ELSE IF Len(strs) = 1 THEN strs[1]
    ELSE strs[1] \o <<sep>> \o Join(Tail(strs), sep)

Digits == <<"0", "1", "2", "3", "4", "5", "6", "7", "8", "9">>

IsDigit(c) == \E d \in 1..10 : Digits[d] = c

DigitVal(c) == (CHOOSE d \in 1..10 : Digits[d] = c) - 1

RECURSIVE DigitsVal(_, _)
DigitsVal(str, acc) ==
    IF Len(str) = 0 THEN acc
    ELSE DigitsVal(Tail(str), acc * 10 + DigitVal(Head(str)))

\* strconv.Atoi: an optional sign followed by at least one decimal digit
Atoi(str) ==
    LET signed == Len(str) > 0 /\ Head(str) \in {"+", "-"}
        body == IF signed THEN Tail(str) ELSE str
        ok == Len(body) > 0 /\ \A i \in 1..Len(body) : IsDigit(body[i])
    IN  IF ~ok THEN [val |-> 0, err |-> "syntax"]
        ELSE [val |-> IF signed /\ Head(str) = "-" THEN 0 - DigitsVal(body, 0)
                      ELSE DigitsVal(body, 0),
              err |-> "nil"]

RECURSIVE NatStr(_)
NatStr(n) ==
    IF n < 10 THEN <<Digits[n + 1]>>
    ELSE NatStr(n \div 10) \o <<Digits[(n % 10) + 1]>>

\* the %d verb of fmt.Sprintf
FormatInt(n) == IF n < 0 THEN <<"-">> \o NatStr(0 - n) ELSE NatStr(n)

(***************************************************************************)
(* Parameter and the prefix-filtered views.  A MagnetURI is modelled by    *)
(* its only field, the sequence Parameters.                                *)
(***************************************************************************)
Parameter(prefix, index, value) ==
    [Prefix |-> prefix, Index |-> index, Value |-> value]

RECURSIVE parametersByPrefix(_, _)
parametersByPrefix(Parameters, prefix) ==
    IF Len(Parameters) = 0 THEN <<>>
    ELSE (IF Head(Parameters).Prefix = prefix THEN <<Head(Parameters)>> ELSE <<>>)
         \o parametersByPrefix(Tail(Parameters), prefix)

ExactTopics(Parameters) == parametersByPrefix(Parameters, exactTopicPrefix)
DisplayNames(Parameters) == parametersByPrefix(Parameters, displayNamePrefix)
KeywordTopics(Parameters) == parametersByPrefix(Parameters, keywordTopicPrefix)
ManifestTopics(Parameters) == parametersByPrefix(Parameters, manifestTopicPrefix)

(***************************************************************************)
(* Equal.                                                                  *)
(***************************************************************************)
containsParameter(list, parameter) ==
    \E i \in 1..Len(list) :
        /\ parameter.Prefix = list[i].Prefix
        /\ parameter.Index = list[i].Index
        /\ parameter.Value = list[i].Value

\* a comparison position by position
compareParameters_Positional(first, second) ==
    /\ Len(first) = Len(second)
    /\ \A i \in 1..Len(first) : first[i] = second[i]

compareParameters(first, second) ==
    IF Len(first) = Len(second)
    THEN \A i \in 1..Len(first) : containsParameter(second, first[i])
    ELSE FALSE

Equal(Parameters, x) == compareParameters(Parameters, x)

(***************************************************************************)
(* Parse.  A result is a record [uri, err]; err is "nil" or the kind of    *)
(* the error message.                                                      *)
(***************************************************************************)
isValidPrefix(prefix) ==
    \/ prefix = exactTopicPrefix
    \/ prefix = displayNamePrefix
    \/ prefix = keywordTopicPrefix
    \/ prefix = manifestTopicPrefix

\* a parameter stored under its index: a later parameter with the prefix and
\* index of an earlier one overwrites it
addParameterToMagnetURI_ByIndex(prefix, index, value, magnetURI) ==
    IF ~isValidPrefix(prefix)
    THEN [uri |-> <<>>, err |-> "Unknown parameter prefix"]
    ELSE IF \E i \in 1..Len(magnetURI) :
                magnetURI[i].Prefix = prefix /\ magnetURI[i].Index = index
    THEN [uri |-> [i \in 1..Len(magnetURI) |->
                      IF magnetURI[i].Prefix = prefix /\ magnetURI[i].Index = index
                      THEN Parameter(prefix, index, value)
                      ELSE magnetURI[i]],
          err |-> "nil"]
    ELSE [uri |-> Append(magnetURI, Parameter(prefix, index, value)),
          err |-> "nil"]

addParameterToMagnetURI(prefix, index, value, magnetURI) ==
    IF ~isValidPrefix(prefix)
    THEN [uri |-> <<>>, err |-> "Unknown parameter prefix"]
    ELSE [uri |-> Append(magnetURI, Parameter(prefix, index, value)),
          err |-> "nil"]

splitPrefixIndex(prefix) ==
    IF Contains(prefix, ".")
    THEN LET prefixSplit == SplitN2(prefix, ".")
             n == Atoi(prefixSplit[2])
         IN  IF n.err # "nil"
             THEN [prefix |-> <<>>, index |-> n.val, err |-> n.err]
             ELSE [prefix |-> prefixSplit[1], index |-> n.val, err |-> "nil"]
    ELSE [prefix |-> prefix, index |-> 0, err |-> "nil"]

parseParameter(parameter, magnetURI) ==
    LET parameterSplit == SplitN2(parameter, "=")
    IN  IF Len(parameterSplit) # 2
        THEN [uri |-> <<>>, err |-> "Parameter without prefix"]
        ELSE LET pi == splitPrefixIndex(parameterSplit[1])
             IN  IF pi.err # "nil"
                 THEN [uri |-> <<>>, err |-> "Wrong parameter prefix"]
                 ELSE addParameterToMagnetURI(
                          pi.prefix, pi.index, parameterSplit[2], magnetURI)

\* the loop of parseParameters from fragment i on: every fragment is
\* parsed, each result replaces both magnetURI and err
RECURSIVE parseParametersFrom(_, _, _, _)
parseParametersFrom(parameters, i, magnetURI, err) ==
    IF i > Len(parameters) THEN [uri |-> magnetURI, err |-> err]
    ELSE LET r == parseParameter(parameters[i], magnetURI)
         IN  parseParametersFrom(parameters, i + 1,
                                 IF r.err # "nil" THEN <<>> ELSE r.uri, r.err)

parseParameters(parameters) == parseParametersFrom(parameters, 1, <<>>, "nil")

Parse(rawMagnetURI) ==
    IF HasPrefix(rawMagnetURI, magnetURISchemaPrefix)
    THEN parseParameters(
             Split(TrimPrefix(rawMagnetURI, magnetURISchemaPrefix), "&"))
    ELSE [uri |-> <<>>, err |-> "No schema prefix"]

(***************************************************************************)
(* String.  A result is a record [s, err].                                 *)
(***************************************************************************)
\* the index left out of the rendering
ParameterString_NoIndex(parameter) ==
    parameter.Prefix \o <<"=">> \o parameter.Value

\* the index rendered only when it is positive
ParameterString_PositiveIndex(parameter) ==
    IF parameter.Index > 0
    THEN parameter.Prefix \o <<".">> \o FormatInt(parameter.Index)
         \o <<"=">> \o parameter.Value
    ELSE parameter.Prefix \o <<"=">> \o parameter.Value

ParameterString(parameter) ==
    IF parameter.Index # 0
    THEN parameter.Prefix \o <<".">> \o FormatInt(parameter.Index)
         \o <<"=">> \o parameter.Value
    ELSE parameter.Prefix \o <<"=">> \o parameter.Value

\* the parameters rendered group by group: xt, dn, kt, mt
parameterStrings_Regrouped(Parameters) ==
    LET grouped == ExactTopics(Parameters) \o DisplayNames(Parameters)
                   \o KeywordTopics(Parameters) \o ManifestTopics(Parameters)
    IN  [i \in 1..Len(grouped) |-> ParameterString(grouped[i])]

parameterStrings(Parameters) ==
    [i \in 1..Len(Parameters) |-> ParameterString(Parameters[i])]

\* any stored parameter counts, whatever its prefix
hasParameters_AnyPrefix(Parameters) == Len(Parameters) # 0

hasParameters(Parameters) ==
    \/ Len(ExactTopics(Parameters)) # 0
    \/ Len(DisplayNames(Parameters)) # 0
    \/ Len(KeywordTopics(Parameters)) # 0
    \/ Len(ManifestTopics(Parameters)) # 0

String(Parameters) ==
    IF ~hasParameters(Parameters)
    THEN [s |-> <<>>, err |-> "no parameters"]
    ELSE [s |-> magnetURISchemaPrefix \o Join(parameterStrings(Parameters), "&"),
          err |-> "nil"]

(***************************************************************************)
(* The inputs.  A raw string is assembled from fragments; each fragment    *)
(* is listed with what it is made of: whether it has a '=', the prefix     *)
(* token of its key, the kind of its dotted suffix, the index and the      *)
(* value it denotes.                                                       *)
(***************************************************************************)
Fragment(txt, hasEq, tok, suffix, idx, val) ==
    [txt |-> txt, hasEq |-> hasEq, tok |-> tok, suffix |-> suffix,
     idx |-> idx, val |-> val]

Fragments ==
    { Fragment(<<"x", "t", "=", "a">>, TRUE, <<"x", "t">>, "none", 0, <<"a">>),
      Fragment(<<"x", "t", ".", "1", "=", "a">>, TRUE, <<"x", "t">>, "positive", 1, <<"a">>),
      Fragment(<<"x", "t", ".", "1", "=", "b">>, TRUE, <<"x", "t">>, "positive", 1, <<"b">>),
      Fragment(<<"x", "t", ".", "1", "2", "=", "b">>, TRUE, <<"x", "t">>, "positive", 12, <<"b">>),
      Fragment(<<"d", "n", "=", "a", ".", "1">>, TRUE, <<"d", "n">>, "none", 0, <<"a", ".", "1">>),
      Fragment(<<"k", "t", "=", "a", "=", "b">>, TRUE, <<"k", "t">>, "none", 0, <<"a", "=", "b">>),
      Fragment(<<"m", "t", "=">>, TRUE, <<"m", "t">>, "none", 0, <<>>),
      Fragment(<<"a", "b">>, FALSE, <<>>, "none", 0, <<>>),
      Fragment(<<>>, FALSE, <<>>, "none", 0, <<>>),
      Fragment(<<"z", "z", "=", "a">>, TRUE, <<"z", "z">>, "none", 0, <<"a">>),
      Fragment(<<"x", "t", ".", "a", "=", "b">>, TRUE, <<"x", "t">>, "nonnumeric", 0, <<"b">>),
      Fragment(<<"x", "t", ".", "=", "a">>, TRUE, <<"x", "t">>, "empty", 0, <<"a">>),
      Fragment(<<"x", "t", ".", "0", "=", "a">>, TRUE, <<"x", "t">>, "zero", 0, <<"a">>),
      Fragment(<<"x", "t", ".", "-", "1", "=", "a">>, TRUE, <<"x", "t">>, "negative", 0 - 1, <<"a">>) }

RECURSIVE SeqsUpTo(_, _)
SeqsUpTo(S, n) ==
    IF n = 0 THEN {<<>>}
    ELSE LET shorter == SeqsUpTo(S, n - 1)
         IN  shorter \cup {Append(q, e) : q \in shorter, e \in S}

\* the fragment lists a raw string is assembled from
FragmentLists == SeqsUpTo(Fragments, MaxFragments)

\* the raw string: the fragments joined by '&', after the schema prefix or
\* without it
RawOf(fs, schema) ==
    (IF schema THEN magnetURISchemaPrefix ELSE <<>>)
    \o Join([i \in 1..Len(fs) |-> fs[i].txt], "&")

\* the parameters of directly constructed URIs, prefixes and values as in
\* the tests' struct literals
ParameterPool ==
    { Parameter(<<"x", "t">>, 0, <<"a">>),
      Parameter(<<"x", "t">>, 5, <<"b">>),
      Parameter(<<"d", "n">>, 0, <<"a">>),
      Parameter(<<"x", "t">>, 0 - 1, <<"a">>),
      Parameter(<<"d", "n">>, 0, <<"a", "&", "b">>),
      Parameter(<<"p", "r", "e", "f">>, 0, <<"a">>) }

ParameterLists == SeqsUpTo(ParameterPool, MaxParams)

(***************************************************************************)
(* The state: one MagnetURI a, how it was built, and the results of the    *)
(* calls made on it.                                                       *)
(***************************************************************************)
VARIABLES
    raw,     \* the string given to Parse when a was parsed
    frags,   \* the fragments raw was assembled from
    a,       \* Parameters of the MagnetURI under test
    origin,  \* "zero" (MagnetURI{}), "Parse" or "literal"
    err,     \* the error Parse returned with a
    s,       \* the string returned by a.String()
    sErr,    \* the error returned by a.String()
    b,       \* Parameters of the second MagnetURI
    bErr,    \* the error of Parse(s), when b is its result
    eq,      \* a.Equal(b)
    eqRev,   \* b.Equal(a)
    done     \* the calls made on a: "String", "Reparse", "Equal"

vars == <<raw, frags, a, origin, err, s, sErr, b, bErr, eq, eqRev, done>>

NoCalls ==
    /\ s = <<>>
    /\ sErr = "nil"
    /\ b = <<>>
    /\ bErr = "nil"
    /\ eq = FALSE
    /\ eqRev = FALSE
    /\ done = {}

\* a freshly built URI has had no call made on it
ResetCalls ==
    /\ s' = <<>>
    /\ sErr' = "nil"
    /\ b' = <<>>
    /\ bErr' = "nil"
    /\ eq' = FALSE
    /\ eqRev' = FALSE
    /\ done' = {}

Init ==
    /\ raw = <<>>
    /\ frags = <<>>
    /\ a = <<>>
    /\ origin = "zero"
    /\ err = "nil"
    /\ NoCalls

\* each behaviour follows one URI: it is built once, from the zero value
Fresh == origin = "zero" /\ done = {}

\* magnetURI, err := Parse(raw)
DoParse ==
    /\ Fresh
    /\ \E fs \in FragmentLists, schema \in BOOLEAN :
        LET r == Parse(RawOf(fs, schema))
        IN  /\ raw' = RawOf(fs, schema)
            /\ frags' = fs
            /\ a' = r.uri
            /\ err' = r.err
            /\ origin' = "Parse"
            /\ ResetCalls

\* magnetURI := MagnetURI{Parameters: []Parameter{...}}
DoLiteral ==
    /\ Fresh
    /\ \E ps \in ParameterLists :
        /\ a' = ps
        /\ origin' = "literal"
        /\ raw' = <<>>
        /\ frags' = <<>>
        /\ err' = "nil"
        /\ ResetCalls

\* s, err := a.String()
DoString ==
    /\ done = {}
    /\ LET r == String(a)
       IN  /\ s' = r.s
           /\ sErr' = r.err
    /\ done' = {"String"}
    /\ UNCHANGED <<raw, frags, a, origin, err, b, bErr, eq, eqRev>>

\* b, err := Parse(s), s being the string a.String() returned
DoReparse ==
    /\ done = {"String"}
    /\ sErr = "nil"
    /\ LET r == Parse(s)
       IN  /\ b' = r.uri
           /\ bErr' = r.err
    /\ done' = {"String", "Reparse"}
    /\ UNCHANGED <<raw, frags, a, origin, err, s, sErr, eq, eqRev>>

\* a.Equal(b) and b.Equal(a), b being the reparsed URI
DoEqualReparsed ==
    /\ done = {"String", "Reparse"}
    /\ eq' = Equal(a, b)
    /\ eqRev' = Equal(b, a)
    /\ done' = {"String", "Reparse", "Equal"}
    /\ UNCHANGED <<raw, frags, a, origin, err, s, sErr, b, bErr>>

\* a.Equal(b) and b.Equal(a), b being another struct literal
DoEqualLiteral ==
    /\ done = {}
    /\ origin # "Parse"
    /\ \E x \in ParameterLists :
           /\ b' = x
           /\ eq' = Equal(a, x)
           /\ eqRev' = Equal(x, a)
    /\ done' = {"Equal"}
    /\ UNCHANGED <<raw, frags, a, origin, err, s, sErr, bErr>>

Next ==
    \/ DoParse
    \/ DoLiteral
    \/ DoString
    \/ DoReparse
    \/ DoEqualReparsed
    \/ DoEqualLiteral

Spec == Init /\ [][Next]_vars

(***************************************************************************)
(* Vocabulary of the properties.                                           *)
(***************************************************************************)
RecognizedTokens == {<<"x", "t">>, <<"d", "n">>, <<"k", "t">>, <<"m", "t">>}

\* a is the result of Parse on a raw string that starts with "magnet:?"
ParsedWithSchema == origin = "Parse" /\ raw = RawOf(frags, TRUE)

\* the dotted suffix of the key is absent or a positive integer
GoodSuffix(f) == f.suffix \in {"none", "positive"}

\* the dotted suffix of the key is absent or a decimal number
NumericSuffix(f) == f.suffix \in {"none", "positive", "zero", "negative"}

ValidFragment(f) == f.hasEq /\ f.tok \in RecognizedTokens /\ GoodSuffix(f)

\* the parameter a fragment denotes
Denoted(f) == Parameter(f.tok, f.idx, f.val)

\* how many times p occurs in the list ps
Occurrences(ps, p) == Cardinality({i \in 1..Len(ps) : ps[i] = p})

\* qs lists the elements of ps in some order
IsPermutation(ps, qs) ==
    /\ Len(ps) = Len(qs)
    /\ \E f \in [1..Len(ps) -> 1..Len(ps)] :
           /\ \A i, j \in 1..Len(ps) : f[i] = f[j] => i = j
           /\ \A i \in 1..Len(ps) : qs[i] = ps[f[i]]

NoAmpersand(ps) ==
    \A i \in 1..Len(ps) : \A k \in 1..Len(ps[i].Value) : ps[i].Value[k] # "&"

RecognizedOnly(ps) == \A i \in 1..Len(ps) : ps[i].Prefix \in RecognizedTokens

\* every prefix is one of the four tokens and no value holds a '&'
WellFormed(ps) == RecognizedOnly(ps) /\ NoAmpersand(ps)

Stringified == "String" \in done /\ sErr = "nil"

\* the '&'-separated pieces of the string a.String() returned
Pieces == Split(SubSeq(s, Len(magnetURISchemaPrefix) + 1, Len(s)), "&")

\* the part of a piece before its first '=', and the part after it
KeyOf(piece) == SubSeq(piece, 1, IndexFrom(piece, "=", 1) - 1)
ValueOf(piece) == SubSeq(piece, IndexFrom(piece, "=", 1) + 1, Len(piece))
\* the part of a key before its first '.', the whole key when it has none
TokenOf(key) ==
    IF IndexFrom(key, ".", 1) = 0 THEN key
    ELSE SubSeq(key, 1, IndexFrom(key, ".", 1) - 1)

\* position of the i-th parameter of ps within its prefix group, from 1
PositionInGroup(ps, i) ==
    Cardinality({j \in 1..i : ps[j].Prefix = ps[i].Prefix})

GroupSize(ps, i) ==
    Cardinality({j \in 1..Len(ps) : ps[j].Prefix = ps[i].Prefix})

\* place of a prefix token in the order xt, dn, kt, mt
Rank(tok) ==
    CASE tok = <<"x", "t">> -> 1
      [] tok = <<"d", "n">> -> 2
      [] tok = <<"k", "t">> -> 3
      [] tok = <<"m", "t">> -> 4
      [] OTHER -> 5

(***************************************************************************)
(* C1.  Parse is atomic: when the raw string starts with "magnet:?" and    *)
(* one of its fragments, at any position, is invalid (no '=', an           *)
(* unrecognized prefix token, or a dotted suffix that is no number),       *)
(* Parse returns a non-nil error and a MagnetURI with zero parameters.     *)
(* Zero and negative suffixes are left to C8.                              *)
(***************************************************************************)
C1_ParseAtomic ==
    (/\ ParsedWithSchema
     /\ \E i \in 1..Len(frags) :
            \/ ~frags[i].hasEq
            \/ frags[i].tok \notin RecognizedTokens
            \/ ~NumericSuffix(frags[i]))
    => (err # "nil" /\ a = <<>>)

(***************************************************************************)
(* C2.  Prefix exhaustiveness: Parse never returns a nil error for a raw   *)
(* string one of whose fragments has a prefix token other than xt, dn,     *)
(* kt, mt, wherever that fragment stands.                                  *)
(***************************************************************************)
C2_PrefixExhaustive ==
    (/\ ParsedWithSchema
     /\ \E i \in 1..Len(frags) :
            frags[i].hasEq /\ frags[i].tok \notin RecognizedTokens)
    => err # "nil"

(***************************************************************************)
(* C3.  Round trip, as claimed: for any MagnetURI with at least one        *)
(* parameter, parsed or constructed, String succeeds, Parse of the string  *)
(* returns a nil error, and the parsed URI is Equal to the original.       *)
(***************************************************************************)
RoundTrips ==
    /\ "String" \in done => sErr = "nil"
    /\ "Reparse" \in done => bErr = "nil"
    /\ {"Reparse", "Equal"} \subseteq done => (eq /\ eqRev)

C3_RoundTripAny == Len(a) >= 1 => RoundTrips

(***************************************************************************)
(* C3, amended.  Round trip for any MagnetURI with at least one parameter  *)
(* whose prefixes are all among xt, dn, kt, mt and whose values hold no    *)
(* '&': String succeeds, Parse of the string returns a nil error, and the  *)
(* parsed URI is Equal to the original.                                    *)
(***************************************************************************)
C3_RoundTripWellFormed == (Len(a) >= 1 /\ WellFormed(a)) => RoundTrips

\* a constructed URI of two parameters, one with an index, went through
\* String, Parse and Equal
C3_Witness ==
    /\ origin = "literal"
    /\ done = {"String", "Reparse", "Equal"}
    /\ Len(a) = 2
    /\ WellFormed(a)
    /\ \E i \in 1..2 : a[i].Index # 0
    /\ eq

(***************************************************************************)
(* C4.  Equal is sensitive to multiplicity: whenever a.Equal(b) or         *)
(* b.Equal(a) returns true, every record occurs the same number of times   *)
(* in a.Parameters as in b.Parameters.                                     *)
(***************************************************************************)
C4_EqualMultiplicity ==
    ("Equal" \in done /\ (eq \/ eqRev))
    => \A p \in {a[i] : i \in 1..Len(a)} \cup {b[i] : i \in 1..Len(b)} :
           Occurrences(a, p) = Occurrences(b, p)

(***************************************************************************)
(* C5.  Equal is insensitive to order: when b.Parameters is a permutation  *)
(* of a.Parameters, a.Equal(b) and b.Equal(a) both return true.            *)
(***************************************************************************)
C5_EqualOrderInsensitive ==
    ("Equal" \in done /\ IsPermutation(a, b)) => (eq /\ eqRev)

\* two URIs holding the same two different parameters in opposite orders
\* were compared
C5_Witness ==
    /\ "Equal" \in done
    /\ Len(a) = 2
    /\ a[1] # a[2]
    /\ b = <<a[2], a[1]>>
    /\ eq
    /\ eqRev

(***************************************************************************)
(* C6.  Single and multi rendering, as claimed: in the string of a         *)
(* successful String call, the only parameter of a group is rendered       *)
(* "prefix=value" whatever its stored Index, and the k-th parameter of a   *)
(* group of two or more is rendered "prefix.k=value".  The pieces are      *)
(* compared as a multiset, so that the order of the output plays no part.  *)
(***************************************************************************)
PositionalRendering(ps, i) ==
    IF GroupSize(ps, i) = 1
    THEN ps[i].Prefix \o <<"=">> \o ps[i].Value
    ELSE ps[i].Prefix \o <<".">> \o FormatInt(PositionInGroup(ps, i))
         \o <<"=">> \o ps[i].Value

C6_PositionalRendering ==
    (Stringified /\ WellFormed(a))
    => IsPermutation([i \in 1..Len(a) |-> PositionalRendering(a, i)], Pieces)

(***************************************************************************)
(* C6, amended.  In the string of a successful String call every           *)
(* parameter is rendered with its stored Index, whatever the size of its   *)
(* group: the key is "prefix" when the stored Index is 0 and               *)
(* "prefix.Index" otherwise.                                               *)
(***************************************************************************)
C6_StoredIndexRendering ==
    (Stringified /\ NoAmpersand(a))
    => /\ Len(Pieces) = Len(a)
       /\ \A i \in 1..Len(a) :
              KeyOf(Pieces[i]) =
                  IF a[i].Index = 0 THEN a[i].Prefix
                  ELSE a[i].Prefix \o <<".">> \o FormatInt(a[i].Index)

\* an only exact topic with stored Index 5 was rendered with ".5"
C6_Witness ==
    /\ Stringified
    /\ a = <<Parameter(<<"x", "t">>, 5, <<"b">>)>>
    /\ s = magnetURISchemaPrefix \o <<"x", "t", ".", "5", "=", "b">>

(***************************************************************************)
(* C7.  String fails exactly when the URI has no parameter with one of     *)
(* the prefixes xt, dn, kt, mt: it then returns the 'no parameters' error  *)
(* and the empty string; otherwise it returns a nil error and a string     *)
(* that starts with "magnet:?".  The call leaves Parameters unchanged.     *)
(***************************************************************************)
C7_StringOutcome ==
    "String" \in done
    => IF \A i \in 1..Len(a) : a[i].Prefix \notin RecognizedTokens
       THEN sErr = "no parameters" /\ s = <<>>
       ELSE /\ sErr = "nil"
            /\ Len(s) >= 8
            /\ SubSeq(s, 1, 8) = <<"m", "a", "g", "n", "e", "t", ":", "?">>

C7_StringFailsExactlyWithoutParameters ==
    /\ []C7_StringOutcome
    /\ [][DoString => a' = a]_vars

\* String was called on a URI that stores a parameter, of no recognized
\* prefix, and failed
C7_Witness ==
    /\ "String" \in done
    /\ Len(a) >= 1
    /\ sErr = "no parameters"
    /\ s = <<>>

(***************************************************************************)
(* C8.  Index invariant: every parameter of a successfully parsed URI has  *)
(* Index >= 0, with Index = 0 only for a key without dotted suffix; a      *)
(* fragment whose dotted suffix is not a positive integer makes Parse      *)
(* fail with the invalid-index error.                                      *)
(***************************************************************************)
C8_IndexInvariant ==
    ParsedWithSchema
    => /\ err = "nil" => \A i \in 1..Len(a) : a[i].Index >= 0
       /\ (err = "nil" /\ Len(a) = Len(frags))
          => \A i \in 1..Len(a) : a[i].Index = 0 => frags[i].suffix = "none"
       /\ (\E i \in 1..Len(frags) : frags[i].hasEq /\ ~GoodSuffix(frags[i]))
          => err = "Wrong parameter prefix"

(***************************************************************************)
(* C9.  Lossless append in encounter order: for "magnet:?" followed by     *)
(* n >= 1 fragments that are all valid, Parse returns a nil error and n    *)
(* parameters, the i-th holding the prefix, index and value of the i-th    *)
(* fragment; repeated prefixes and indices are all kept, and the four      *)
(* views are the subsequences of that list, in the same order.             *)
(***************************************************************************)
IsExactTopic(p) == p.Prefix = <<"x", "t">>
IsDisplayName(p) == p.Prefix = <<"d", "n">>
IsKeywordTopic(p) == p.Prefix = <<"k", "t">>
IsManifestTopic(p) == p.Prefix = <<"m", "t">>

C9_LosslessAppend ==
    (/\ ParsedWithSchema
     /\ Len(frags) >= 1
     /\ \A i \in 1..Len(frags) : ValidFragment(frags[i]))
    => LET denoted == [i \in 1..Len(frags) |-> Denoted(frags[i])]
       IN  /\ err = "nil"
           /\ a = denoted
           /\ ExactTopics(a) = SelectSeq(denoted, IsExactTopic)
           /\ DisplayNames(a) = SelectSeq(denoted, IsDisplayName)
           /\ KeywordTopics(a) = SelectSeq(denoted, IsKeywordTopic)
           /\ ManifestTopics(a) = SelectSeq(denoted, IsManifestTopic)

\* two valid fragments with the same prefix and the same index, and
\* different values, were parsed, and both are kept
C9_Witness ==
    /\ ParsedWithSchema
    /\ err = "nil"
    /\ Len(frags) = 2
    /\ \A i \in 1..2 : ValidFragment(frags[i])
    /\ frags[1].tok = frags[2].tok
    /\ frags[1].idx = frags[2].idx
    /\ frags[1].val # frags[2].val
    /\ Len(a) = 2

(***************************************************************************)
(* C10.  Regrouping, as claimed: in the string of a successful String      *)
(* call every xt parameter precedes every dn parameter, every dn every     *)
(* kt, and every kt every mt, whatever the stored order.                   *)
(***************************************************************************)
C10_RegroupedByPrefix ==
    (Stringified /\ WellFormed(a))
    => \A i, j \in 1..Len(Pieces) :
           i < j => Rank(TokenOf(KeyOf(Pieces[i]))) <= Rank(TokenOf(KeyOf(Pieces[j])))

(***************************************************************************)
(* C10, amended.  String does not regroup: in the string of a successful   *)
(* String call the parameters appear in stored order, whatever their       *)
(* prefixes; hence within one group the stored order is kept.              *)
(***************************************************************************)
C10_StoredOrder ==
    (Stringified /\ NoAmpersand(a))
    => /\ Len(Pieces) = Len(a)
       /\ \A i \in 1..Len(a) :
              /\ TokenOf(KeyOf(Pieces[i])) = a[i].Prefix
              /\ ValueOf(Pieces[i]) = a[i].Value

\* a URI storing a display name before an exact topic was rendered, the
\* display name first
C10_Witness ==
    /\ Stringified
    /\ Len(a) = 2
    /\ a[1].Prefix = <<"d", "n">>
    /\ a[2].Prefix = <<"x", "t">>
    /\ NoAmpersand(a)
    /\ TokenOf(KeyOf(Pieces[1])) = <<"d", "n">>
    /\ TokenOf(KeyOf(Pieces[2])) = <<"x", "t">>

====
